---- MODULE Spec2Model ----
(***************************************************************************)
(* A model of snake (plugin/snake/__init__.py): the callback registry      *)
(* (_mapped_functions, register_fn, dispatch_mapped_function) and the      *)
(* scoped state-preservation context managers (preserve_cursor,            *)
(* preserve_mode, preserve_registers, preserve_state, delete_word), and    *)
(* command(cmd, capture).                                                  *)
(*                                                                         *)
(* The host editor is modelled only as far as the wrappers talk to it:     *)
(* registers with Vim's unnamed-register pointer, the cursor, the mode,    *)
(* and the redirection of messages into a register.                        *)
(***************************************************************************)
EXTENDS Integers, Sequences, FiniteSets, TLC

(***************************************************************************)
(* Bounds of the model.                                                    *)
(***************************************************************************)
\* number of memory slots a callable object can live at
MaxSlots == 2
\* addresses are AddrBase+1 .. AddrBase+MaxSlots (so that ids have 1 and 2 digits)
AddrBase == 8
\* number of callable objects ever created
MaxObjs == 3
\* number of distinct behaviours a callable can have (it returns its number)
MaxBeh == 2

VARIABLES
    mapped,     \* _mapped_functions: key (an id) -> callable
    held,       \* callables the user's script still references
    nextUid,    \* identity of the next callable object created
    issued,     \* handles returned by register_fn since the registry was created
    last,       \* the most recent register_fn / dispatch_mapped_function call
    lastReg,    \* the most recent register_fn call
    vim,        \* the host editor: registers, unnamed-register pointer, cursor, mode
    pc,         \* "idle", "body" (inside the with blocks) or "exiting"
    plan,       \* the wrappers of the call being run, outermost first
    stack,      \* the wrappers entered and not yet left, innermost last
    closed,     \* the wrappers left during this call, in the order they were left
    exc,        \* the exception in flight ("none" when there is none)
    cap         \* the command() call being run: its arguments, position and result

registryVars == <<mapped, held, nextUid, issued, last, lastReg>>

scopeVars == <<vim, pc, plan, stack, closed, exc, cap>>

vars == <<mapped, held, nextUid, issued, last, lastReg, vim, pc, plan, stack, closed, exc,
          cap>>

(***************************************************************************)
(* Callables.  A callable is an object: it has an identity (uid, never     *)
(* reused), lives at an address (what id() returns; CPython reuses the     *)
(* address of an object that was freed) and has a behaviour: called with   *)
(* no arguments it returns the value beh, or raises KeyError (beh = 0).    *)
(***************************************************************************)
Addrs == (AddrBase + 1) .. (AddrBase + MaxSlots)

Behaviours == 0 .. MaxBeh

NoObj == [uid |-> 0, addr |-> 0, beh |-> 0]

Range(f) == {f[x] : x \in DOMAIN f}

\* line 108 stores a strong reference: a registered callable stays alive
ReferencedWeak(m, h, o) == o \in h

Referenced(m, h, o) == o \in h \/ o \in Range(m)

LiveObjs == {o \in held \cup Range(mapped) : Referenced(mapped, held, o)}

FreeAddrs == Addrs \ {o.addr : o \in LiveObjs}

(***************************************************************************)
(* "%s" % fn_key and the host's reading of the number back.                *)
(***************************************************************************)
DigitChars == <<"0", "1", "2", "3", "4", "5", "6", "7", "8", "9">>

RECURSIVE Digits(_)
Digits(n) == IF n < 10 THEN <<DigitChars[n + 1]>>
             ELSE Digits(n \div 10) \o <<DigitChars[(n % 10) + 1]>>

DigitValue(c) == (CHOOSE i \in 1..10 : DigitChars[i] = c) - 1

RECURSIVE FromDigits(_)
FromDigits(s) == IF Len(s) = 0 THEN 0
                 ELSE 10 * FromDigits(SubSeq(s, 1, Len(s) - 1)) + DigitValue(s[Len(s)])

\* id(fn)
FnKeyByBehaviour(fn) == AddrBase + 1 + (fn.beh % MaxSlots)

FnKey(fn) == fn.addr

\* "snake.dispatch_mapped_function(%s)" % fn_key
Handle(key) == <<"snake.dispatch_mapped_function(">> \o Digits(key) \o <<")">>

\* the host runs the handle as Python source: the argument is the number written
ParseKey(h) == FromDigits(SubSeq(h, 2, Len(h) - 1))

\* _mapped_functions[fn_key] = fn
StoreFnReplacing(m, key, fn) == [k \in {key} |-> fn]

StoreFn(m, key, fn) == [k \in DOMAIN m \cup {key} |-> IF k = key THEN fn ELSE m[k]]

(***************************************************************************)
(* Outcomes of a call: a normal return with a value, or an exception.      *)
(***************************************************************************)
Returned(v) == [kind |-> "return", value |-> v, error |-> "none"]

Raised(e) == [kind |-> "raise", value |-> 0, error |-> e]

NoOutcome == [kind |-> "none", value |-> 0, error |-> "none"]

\* fn(): a callable with beh = 0 raises KeyError, any other returns beh
Invoke(fn) == IF fn.beh = 0 THEN Raised("KeyError") ELSE Returned(fn.beh)

\* return fn()   (the else branch of the try: an error of fn is not caught)
CallOutcomeNoReturn(fn) == IF Invoke(fn).kind = "raise" THEN Invoke(fn) ELSE Returned(0)

CallOutcome(fn) == Invoke(fn)

\* except KeyError: raise Exception("unable to find mapped function ...")
MissingSwallowed(key) == Returned(0)

Missing(key) == Raised("StaleHandle")

NoCall == [op |-> "none", key |-> 0, handle |-> <<>>, fn |-> NoObj,
           result |-> NoOutcome, invoked |-> <<>>, before |-> <<>>]

(***************************************************************************)
(* The registry's operations.                                              *)
(***************************************************************************)
\* the user's script creates a callable (def, lambda, partial, bound method)
NewCallable(b) ==
    /\ nextUid <= MaxObjs
    /\ \E a \in FreeAddrs :
         held' = held \cup {[uid |-> nextUid, addr |-> a, beh |-> b]}
    /\ nextUid' = nextUid + 1
    /\ UNCHANGED <<mapped, issued, last, lastReg, scopeVars>>

\* the script drops its reference; the object is freed unless still referenced
DropRef(o) ==
    /\ o \in held
    /\ held' = held \ {o}
    /\ UNCHANGED <<mapped, nextUid, issued, last, lastReg, scopeVars>>

register_fn(fn) ==
    /\ fn \in held
    /\ LET fn_key == FnKey(fn)
           call == [op |-> "register", key |-> fn_key, handle |-> Handle(fn_key),
                    fn |-> fn, result |-> NoOutcome, invoked |-> <<>>,
                    before |-> mapped]
       IN /\ mapped' = StoreFn(mapped, fn_key, fn)
          /\ issued' = issued \cup {[handle |-> Handle(fn_key), uid |-> fn.uid]}
          /\ last' = call
          /\ lastReg' = call
    /\ UNCHANGED <<held, nextUid, scopeVars>>

dispatch_mapped_function(h) ==
    LET key == ParseKey(h)
        found == key \in DOMAIN mapped
    IN /\ last' = [op |-> "dispatch", key |-> key, handle |-> h,
                   fn |-> IF found THEN mapped[key] ELSE NoObj,
                   result |-> IF found THEN CallOutcome(mapped[key]) ELSE Missing(key),
                   invoked |-> IF found THEN <<mapped[key].uid>> ELSE <<>>,
                   before |-> mapped]
       /\ UNCHANGED <<mapped, held, nextUid, issued, lastReg, scopeVars>>

\* the module is reloaded: line 33 runs again and the registry starts empty
Reload ==
    /\ mapped # <<>>
    /\ mapped' = <<>>
    /\ issued' = {}
    /\ last' = NoCall
    /\ lastReg' = NoCall
    /\ UNCHANGED <<held, nextUid, scopeVars>>

RegistryInit ==
    /\ mapped = <<>>
    /\ held = {}
    /\ nextUid = 1
    /\ issued = {}
    /\ last = NoCall
    /\ lastReg = NoCall

Create == \E b \in Behaviours : NewCallable(b)

Drop == \E o \in held : DropRef(o)

Register == \E fn \in held : register_fn(fn)

Dispatch == \E k \in Addrs : dispatch_mapped_function(Handle(k))

RegistryNext == Create \/ Drop \/ Register \/ Dispatch \/ Reload

(***************************************************************************)
(* The host editor, as far as the wrappers talk to it.                     *)
(*                                                                         *)
(* Registers: "a" stands for the named registers, "0" is the yank          *)
(* register, and the unnamed register "\"" is a pointer to the register    *)
(* written last (:help quotequote): reading @" reads the register pointed  *)
(* to; :let @" = x writes register 0 and points the unnamed register at    *)
(* it; :let @r = x for any other r writes r and leaves the pointer.        *)
(***************************************************************************)
\* extent of the buffer the cursor moves in
MaxRow == 2
MaxCol == 2
\* number of buffers
MaxBufs == 2
\* number of registers a preserve_registers call names
MaxRegs == 2

RegNames == {"a", "0"}

AllRegNames == RegNames \cup {"\""}

\* register contents: empty, a word character, a double quote, a backslash,
\* and a backslash followed by a word character
Contents == {<<>>, <<"w">>, <<"\"">>, <<"\\">>, <<"\\", "w">>}

\* the values of mode(1): normal, visual by character, by line, blockwise
\* (the single control character CTRL-V, written "<C-V>" here), insert
Modes == {"n", "v", "V", "<C-V>", "i"}

HostVisual == {"v", "V", "<C-V>"}

Positions == (1..MaxRow) \X (1..MaxCol)

DefaultVim == [regs |-> [r \in RegNames |-> <<>>], unnamed |-> "0",
               cursor |-> <<1, 1>>, mode |-> "n", lastVisual |-> "none",
               vcur |-> <<1, 1>>, buf |-> 1, redir |-> "none"]

\* vim.eval("@%s" % name)
HostEvalReg(v, name) == IF name = "\"" THEN v.regs[v.unnamed] ELSE v.regs[name]

\* :let @name = c
HostLet(v, name, c) ==
    IF name = "\"" THEN [v EXCEPT !.regs["0"] = c, !.unnamed = "0"]
    ELSE [v EXCEPT !.regs[name] = c]

\* a yank or delete into register name ("ayy, "0yiw, "0diw)
HostYank(v, name, c) == [v EXCEPT !.regs[name] = c, !.unnamed = name]

\* the editor changes mode; leaving a visual mode remembers the selection
HostSetMode(v, m) ==
    IF v.mode \in HostVisual /\ m \notin HostVisual
    THEN [v EXCEPT !.mode = m, !.lastVisual = v.mode, !.vcur = v.cursor]
    ELSE [v EXCEPT !.mode = m]

\* :normal with the keys given: gv reselects the last selection (and puts the
\* cursor at its end), <Esc> leaves visual and insert mode
HostNormal(v, ks) ==
    IF ks = <<"g", "v">>
    THEN IF v.mode = "n" /\ v.lastVisual # "none"
         THEN [v EXCEPT !.mode = v.lastVisual, !.cursor = v.vcur]
         ELSE v
    ELSE IF ks = <<"<Esc>">>
    THEN IF v.mode # "n" THEN HostSetMode(v, "n") ELSE v
    ELSE v

\* :redir @r starts redirecting messages into register r, emptying it first
HostRedirStart(v, r) == [v EXCEPT !.redir = r, !.regs[r] = <<>>]

\* :redir END
HostRedirEnd(v) == [v EXCEPT !.redir = "none"]

\* a message of text t: appended to the register messages are redirected to
HostMessage(v, t) ==
    IF v.redir = "none" THEN v ELSE [v EXCEPT !.regs[v.redir] = @ \o t]

\* call setpos('.', [0, row, col, 0]): a position outside the buffer is refused
HostSetPos(v, row, col) ==
    IF <<row, col>> \in Positions THEN [v EXCEPT !.cursor = <<row, col>>] ELSE v

(***************************************************************************)
(* Building a command string and the host's reading of a "..." string.     *)
(***************************************************************************)
RECURSIVE escape_string_dq(_)
escape_string_dq(s) ==
    IF s = <<>> THEN <<>>
    ELSE (IF Head(s) = "\"" THEN <<"\\", "\"">> ELSE <<Head(s)>>)
             \o escape_string_dq(Tail(s))

\* the text after a backslash: \<esc> is the Escape key, any other character
\* of the model stands for itself
IsEscKey(t, i) ==
    /\ i + 5 <= Len(t)
    /\ SubSeq(t, i + 1, i + 5) = <<"<", "e", "s", "c", ">">>

\* the host evaluates the string literal that starts after an opening quote:
\* t is the text up to and including the closing quote the command ends with
RECURSIVE VimDqScan(_, _, _)
VimDqScan(t, i, acc) ==
    IF i > Len(t) THEN [ok |-> FALSE, val |-> <<>>]
    ELSE IF t[i] = "\"" THEN
        \* the literal ends here; what follows must be nothing or a comment
        [ok |-> (i = Len(t) \/ t[i + 1] = "\""), val |-> acc]
    ELSE IF t[i] = "\\" /\ i < Len(t) THEN
        IF IsEscKey(t, i) THEN VimDqScan(t, i + 6, Append(acc, "<Esc>"))
        ELSE VimDqScan(t, i + 2, Append(acc, t[i + 1]))
    ELSE VimDqScan(t, i + 1, Append(acc, t[i]))

VimDqString(body) == VimDqScan(body \o <<"\"">>, 1, <<>>)

(***************************************************************************)
(* The module's accessors.                                                 *)
(***************************************************************************)
NoneVal == [none |-> TRUE, val |-> <<>>]

Some(c) == [none |-> FALSE, val |-> c]

\* get_register: an empty register reads as None
get_register(v, name) ==
    IF HostEvalReg(v, name) = <<>> THEN NoneVal ELSE Some(HostEvalReg(v, name))

\* set_register: command('let @%s = "%s"' % (name, escape_string_dq(str(val))));
\* ok is FALSE when the host rejects the command (vim.error)
set_register(v, name, val) ==
    LET lit == VimDqString(escape_string_dq(val))
    IN IF lit.ok THEN [ok |-> TRUE, vim |-> HostLet(v, name, lit.val)]
       ELSE [ok |-> FALSE, vim |-> v]

clear_register(v, name) == set_register(v, name, <<>>)

\* get_mode: vim.eval("mode(1)")
get_mode(v) == v.mode

\* keys: command('execute "normal %s"' % escape_string_dq(k))
keys(v, k) ==
    LET lit == VimDqString(escape_string_dq(k))
    IN IF lit.ok THEN HostNormal(v, lit.val) ELSE v

\* get_cursor_position: int() of the strings getpos('.') returns
get_cursor_position(v) ==
    <<FromDigits(Digits(v.cursor[1])), FromDigits(Digits(v.cursor[2]))>>

\* "[0, %d, %d, 0]" % (pos[0], pos[1])
SetposArgsSwapped(pos) == <<Digits(pos[2]), Digits(pos[1])>>

SetposArgs(pos) == <<Digits(pos[1]), Digits(pos[2])>>

set_cursor_position(v, pos) ==
    HostSetPos(v, FromDigits(SetposArgs(pos)[1]), FromDigits(SetposArgs(pos)[2]))

(***************************************************************************)
(* The context managers.  A wrapper is entered (the code before the yield) *)
(* and left (the finally clause).                                          *)
(***************************************************************************)
CursorW == [kind |-> "cursor", regs |-> <<>>]

ModeW == [kind |-> "mode", regs |-> <<>>]

RegistersW(regs) == [kind |-> "registers", regs |-> regs]

\* line 151
special_regs == <<"0", "\"">>

\* line 133
visual_modes == {"v", "V", "^V"}

RegTuples == UNION {[1..n -> AllRegNames] : n \in 0..MaxRegs}

\* old_regs[reg] = contents
DictPut(d, k, x) == [j \in DOMAIN d \cup {k} |-> IF j = k THEN x ELSE d[j]]

\* lines 153-156: save and clear each register named
RECURSIVE SaveNamed(_, _, _, _)
SaveNamed(v, regs, i, old) ==
    IF i > Len(regs) THEN [vim |-> v, old |-> old]
    ELSE SaveNamed(clear_register(v, regs[i]).vim, regs, i + 1,
                   DictPut(old, regs[i], get_register(v, regs[i])))

\* lines 160-162: save the special registers, without clearing them
RECURSIVE SaveSpecial(_, _, _)
SaveSpecial(v, i, old) ==
    IF i > Len(special_regs) THEN old
    ELSE SaveSpecial(v, i + 1,
                     DictPut(old, special_regs[i], get_register(v, special_regs[i])))

\* line 168: for reg in regs + special_regs
RestoreOrderSpecialFirst(regs) == special_regs \o regs

RestoreOrder(regs) == regs \o special_regs

\* lines 168-173: write the saved contents back, stopping at a failed command
RECURSIVE RestoreRegs(_, _, _, _, _)
RestoreRegs(v, order, old, i, writes) ==
    IF i > Len(order) THEN [vim |-> v, writes |-> writes, fed |-> <<>>, error |-> "none"]
    ELSE LET reg == order[i]
             res == IF old[reg].none THEN clear_register(v, reg)
                    ELSE set_register(v, reg, old[reg].val)
         IN IF res.ok THEN RestoreRegs(res.vim, order, old, i + 1, Append(writes, reg))
            ELSE [vim |-> v, writes |-> writes, fed |-> <<>>, error |-> "vim.error: let"]

\* the code of a wrapper up to its yield: the host after it and the value saved
EnterWrapper(w, v) ==
    IF w.kind = "cursor" THEN [vim |-> v, old |-> get_cursor_position(v)]
    ELSE IF w.kind = "mode" THEN [vim |-> v, old |-> get_mode(v)]
    ELSE LET named == SaveNamed(v, w.regs, 1, <<>>)
         IN [vim |-> named.vim, old |-> SaveSpecial(named.vim, 1, named.old)]

KeysGv == <<"g", "v">>

KeysEsc == <<"\\", "<", "e", "s", "c", ">">>

\* lines 138-144
ModeKeys(old_mode, cur_mode) ==
    IF cur_mode = "n"
    THEN IF old_mode \in visual_modes THEN <<KeysGv>> ELSE <<>>
    ELSE IF cur_mode \in visual_modes
    THEN IF old_mode = "n" THEN <<KeysEsc>> ELSE <<>>
    ELSE <<>>

\* the finally clause of a wrapper: the host after it, the registers written,
\* the keys fed, and the error it raised ("none" when it raised none)
ExitWrapper(f, v) ==
    IF f.kind = "cursor"
    THEN [vim |-> set_cursor_position(v, f.old), writes |-> <<>>, fed |-> <<>>,
          error |-> "none"]
    ELSE IF f.kind = "mode"
    THEN LET ks == ModeKeys(f.old, get_mode(v))
         IN [vim |-> IF ks = <<>> THEN v ELSE keys(v, ks[1]), writes |-> <<>>,
             fed |-> ks, error |-> "none"]
    ELSE RestoreRegs(v, RestoreOrder(f.regs), f.old, 1, <<>>)

\* nested with statements: enter the wrappers of a plan, outermost first
RECURSIVE EnterAll(_, _, _, _)
EnterAll(v, p, i, stk) ==
    IF i > Len(p) THEN [vim |-> v, stack |-> stk]
    ELSE LET e == EnterWrapper(p[i], v)
         IN EnterAll(e.vim, p, i + 1,
                     Append(stk, [kind |-> p[i].kind, regs |-> p[i].regs,
                                  old |-> e.old, before |-> v, entered |-> e.vim]))

\* preserve_state: mode, cursor, registers(), in that nesting
PreserveStatePlan == <<ModeW, CursorW, RegistersW(<<>>)>>

\* delete_word: mode, registers("0")
DeleteWordPlan == <<ModeW, RegistersW(<<"0">>)>>

BodyError == "vim.error: body"

(***************************************************************************)
(* Actions: a call enters its wrappers, the wrapped operation works on the *)
(* host and returns or raises, then the wrappers are left innermost first. *)
(***************************************************************************)
Call(p) ==
    /\ pc = "idle"
    /\ LET e == EnterAll(vim, p, 1, <<>>)
       IN /\ vim' = e.vim
          /\ stack' = e.stack
    /\ plan' = p
    /\ closed' = <<>>
    /\ exc' = "none"
    /\ pc' = "body"
    /\ UNCHANGED <<registryVars, cap>>

BodyRegister ==
    /\ pc = "body"
    /\ \E c \in Contents :
          \/ \E r \in AllRegNames : vim' = HostLet(vim, r, c)
          \/ \E r \in RegNames : vim' = HostYank(vim, r, c)
    /\ UNCHANGED <<pc, plan, stack, closed, exc, registryVars, cap>>

BodyMove ==
    /\ pc = "body"
    /\ \E p \in Positions : vim' = [vim EXCEPT !.cursor = p]
    /\ UNCHANGED <<pc, plan, stack, closed, exc, registryVars, cap>>

BodyMode ==
    /\ pc = "body"
    /\ \E m \in Modes : vim' = HostSetMode(vim, m)
    /\ UNCHANGED <<pc, plan, stack, closed, exc, registryVars, cap>>

\* the wrapped operation returns
BodyReturn ==
    /\ pc = "body"
    /\ pc' = "exiting"
    /\ UNCHANGED <<vim, plan, stack, closed, exc, registryVars, cap>>

\* the wrapped operation fails with an evaluator error
BodyRaise ==
    /\ pc = "body"
    /\ pc' = "exiting"
    /\ exc' = BodyError
    /\ UNCHANGED <<vim, plan, stack, closed, registryVars, cap>>

\* the innermost wrapper still open runs its finally clause
Exit ==
    /\ pc = "exiting"
    /\ stack # <<>>
    /\ LET f == stack[Len(stack)]
           res == ExitWrapper(f, vim)
           excOut == IF res.error # "none" THEN res.error ELSE exc
       IN /\ vim' = res.vim
          /\ exc' = excOut
          /\ closed' = Append(closed,
                 [kind |-> f.kind, regs |-> f.regs, depth |-> Len(stack),
                  before |-> f.before, entered |-> f.entered, exitIn |-> vim,
                  after |-> res.vim, writes |-> res.writes, fed |-> res.fed,
                  error |-> res.error, excIn |-> exc, excOut |-> excOut])
    /\ stack' = SubSeq(stack, 1, Len(stack) - 1)
    /\ pc' = IF Len(stack) = 1 THEN "done" ELSE "exiting"
    /\ UNCHANGED <<plan, registryVars, cap>>

\* the call is over: the caller goes on, and may call again
Return ==
    /\ pc = "done"
    /\ pc' = "idle"
    /\ plan' = <<>>
    /\ closed' = <<>>
    /\ exc' = "none"
    /\ UNCHANGED <<vim, stack, registryVars, cap>>

NoCommand == [kind |-> "none", step |-> "none", out |-> NoneVal, text |-> <<>>,
              ncmd |-> 0, yank |-> FALSE, before |-> DefaultVim]

ScopeIdle ==
    /\ pc = "idle"
    /\ cap = NoCommand
    /\ plan = <<>>
    /\ stack = <<>>
    /\ closed = <<>>
    /\ exc = "none"

(***************************************************************************)
(* Specifications.                                                         *)
(***************************************************************************)
\* the callback registry
Init == RegistryInit /\ ScopeIdle /\ vim = DefaultVim

Next == RegistryNext

Spec == Init /\ [][Next]_vars

\* preserve_registers(*regs) around operations on registers
InitRegisters ==
    /\ RegistryInit
    /\ ScopeIdle
    /\ vim \in {[DefaultVim EXCEPT !.regs = rs, !.unnamed = u] :
                    rs \in [RegNames -> Contents], u \in RegNames}

CallRegisters == \E t \in RegTuples : Call(<<RegistersW(t)>>)

NextRegisters ==
    CallRegisters \/ BodyRegister \/ BodyReturn \/ BodyRaise \/ Exit \/ Return

SpecRegisters == InitRegisters /\ [][NextRegisters]_vars

\* preserve_mode around operations that change the mode
InitMode ==
    /\ RegistryInit
    /\ ScopeIdle
    /\ vim \in {[DefaultVim EXCEPT !.mode = m, !.lastVisual = lv] :
                    m \in Modes, lv \in HostVisual \cup {"none"}}

CallMode == Call(<<ModeW>>)

NextMode == CallMode \/ BodyMode \/ BodyReturn \/ BodyRaise \/ Exit \/ Return

SpecMode == InitMode /\ [][NextMode]_vars

\* preserve_cursor around cursor movements
InitCursor ==
    /\ RegistryInit
    /\ ScopeIdle
    /\ vim \in {[DefaultVim EXCEPT !.cursor = p, !.mode = m, !.buf = b,
                                   !.regs["0"] = c, !.regs["a"] = c] :
                    p \in Positions, m \in Modes, b \in 1..MaxBufs, c \in Contents}

CallCursor == Call(<<CursorW>>)

NextCursor == CallCursor \/ BodyMove \/ BodyReturn \/ BodyRaise \/ Exit \/ Return

SpecCursor == InitCursor /\ [][NextCursor]_vars

\* preserve_state and delete_word: the wrappers nested; register 0 starts
\* with a word character or with a backslash, in normal or visual mode
InitState ==
    /\ RegistryInit
    /\ ScopeIdle
    /\ vim \in {[DefaultVim EXCEPT !.regs["0"] = c, !.mode = m] :
                    c \in {<<"w">>, <<"\\">>}, m \in {"n", "v"}}

CallState == \E p \in {PreserveStatePlan, DeleteWordPlan} : Call(p)

NextState ==
    CallState \/ BodyRegister \/ BodyMode \/ BodyMove \/ BodyReturn \/ BodyRaise \/ Exit

SpecState == InitState /\ [][NextState]_vars

(***************************************************************************)
(* command(cmd, capture).  The command cmd writes a message (possibly      *)
(* empty), may yank into register 0, and succeeds or fails.                *)
(***************************************************************************)
CmdEffects == {[yank |-> FALSE, c |-> <<>>]} \cup {[yank |-> TRUE, c |-> c] : c \in Contents}

\* vim.command(cmd): what a run of cmd does to the host
HostCommand(v, t, eff) ==
    IF eff.yank THEN HostYank(HostMessage(v, t), "0", eff.c) ELSE HostMessage(v, t)

\* lines 57-59: with preserve_registers("a"): vim.command("redir @a")
CommandCapture ==
    /\ pc = "idle"
    /\ LET e == EnterAll(vim, <<RegistersW(<<"a">>)>>, 1, <<>>)
       IN /\ vim' = HostRedirStart(e.vim, "a")
          /\ stack' = e.stack
    /\ plan' = <<RegistersW(<<"a">>)>>
    /\ closed' = <<>>
    /\ exc' = "none"
    /\ pc' = "body"
    /\ cap' = [NoCommand EXCEPT !.kind = "capture", !.step = "cmd", !.before = vim]
    /\ UNCHANGED registryVars

\* line 60: vim.command(cmd); a failure leaves the with block at once
CmdRun ==
    /\ pc = "body"
    /\ cap.step = "cmd"
    /\ \E t \in Contents, eff \in CmdEffects, ok \in BOOLEAN :
          /\ vim' = HostCommand(vim, t, eff)
          /\ cap' = [cap EXCEPT !.step = IF ok THEN "end" ELSE "failed",
                                !.text = t, !.ncmd = @ + 1, !.yank = eff.yank]
          /\ pc' = IF ok THEN "body" ELSE "exiting"
          /\ exc' = IF ok THEN "none" ELSE BodyError
    /\ UNCHANGED <<plan, stack, closed, registryVars>>

\* lines 61-62: vim.command("redir END"); out = get_register("a")
CmdRedirEnd ==
    /\ pc = "body"
    /\ cap.step = "end"
    /\ vim' = HostRedirEnd(vim)
    /\ cap' = [cap EXCEPT !.step = "out", !.out = get_register(HostRedirEnd(vim), "a")]
    /\ pc' = "exiting"
    /\ UNCHANGED <<plan, stack, closed, exc, registryVars>>

\* lines 63-66: out = None; vim.command(cmd); return out
CommandPlain ==
    /\ pc = "idle"
    /\ \E t \in Contents, eff \in CmdEffects, ok \in BOOLEAN :
          /\ vim' = HostCommand(vim, t, eff)
          /\ cap' = [NoCommand EXCEPT !.kind = "plain", !.step = "out", !.text = t,
                                      !.ncmd = 1, !.yank = eff.yank, !.before = vim]
          /\ exc' = IF ok THEN "none" ELSE BodyError
    /\ pc' = "done"
    /\ plan' = <<>>
    /\ closed' = <<>>
    /\ UNCHANGED <<stack, registryVars>>

InitCommand ==
    /\ RegistryInit
    /\ ScopeIdle
    /\ vim \in {[DefaultVim EXCEPT !.regs = rs, !.unnamed = u] :
                    rs \in [RegNames -> Contents], u \in RegNames}

NextCommand == CommandCapture \/ CmdRun \/ CmdRedirEnd \/ Exit \/ CommandPlain

SpecCommand == InitCommand /\ [][NextCommand]_vars

(***************************************************************************)
(* Claims about the callback registry (checked under Spec).                *)
(***************************************************************************)

\* C1: dispatching the handle that the latest register_fn(f) returned invokes
\* f exactly once, invokes no other callable, and the result is f's own
\* result (the value f returns; an error f raises is passed on as it is).
C1_DispatchInvokesRegistered ==
    (last.op = "dispatch" /\ lastReg.op = "register" /\ last.handle = lastReg.handle)
        => /\ last.invoked = <<lastReg.fn.uid>>
           /\ lastReg.fn.beh # 0 => last.result = Returned(lastReg.fn.beh)
           /\ lastReg.fn.beh = 0 => last.result = Raised("KeyError")

\* reached: f was registered last, other callables are registered as well,
\* and the dispatch of f's handle returned f's value
C1_Witness ==
    /\ last.op = "dispatch"
    /\ lastReg.op = "register"
    /\ last.handle = lastReg.handle
    /\ last.result.kind = "return"
    /\ Cardinality(DOMAIN last.before) >= 2

\* C2: a dispatch with a key that is not in the registry raises the
\* stale-handle error, invokes nothing and leaves the registry as it was.
C2_UnknownKeyRaises ==
    (last.op = "dispatch" /\ last.key \notin DOMAIN last.before)
        => /\ last.result = Raised("StaleHandle")
           /\ last.invoked = <<>>
           /\ mapped = last.before

\* reached: a dispatch of an unknown key while other callables are registered
C2_Witness ==
    /\ last.op = "dispatch"
    /\ last.key \notin DOMAIN last.before
    /\ last.before # <<>>

\* C3: two distinct callables that are both registered have distinct handles,
\* and registering a callable leaves the entries of every other callable alone.
C3_DistinctCallablesDistinctHandles ==
    /\ \A i, j \in issued : i.uid # j.uid => i.handle # j.handle
    /\ last.op = "register" =>
          \A k \in DOMAIN last.before :
              last.before[k].uid # last.fn.uid
                  => (k \in DOMAIN mapped /\ mapped[k] = last.before[k])

\* reached: two distinct callables with the same behaviour are both registered
C3_Witness ==
    \E f, g \in Range(mapped) :
        /\ f.uid # g.uid
        /\ f.beh = g.beh
        /\ \E i, j \in issued : i.uid = f.uid /\ j.uid = g.uid

\* C4 as stated: every register_fn call uses a key that was not in the
\* registry before the call and adds exactly one entry.
C4_AlwaysFreshHandle ==
    last.op = "register" =>
        /\ last.key \notin DOMAIN last.before
        /\ Cardinality(DOMAIN mapped) = Cardinality(DOMAIN last.before) + 1

AlreadyRegistered(call) ==
    \E k \in DOMAIN call.before : call.before[k].uid = call.fn.uid

\* C4 amended: registering a callable that is not yet registered stores it
\* under a key that was not in the registry and adds exactly one entry;
\* registering a callable that is already registered returns the handle it
\* already has and leaves the registry as it was; so the registry holds one
\* entry per distinct callable registered.
C4_FreshHandlePerCallable ==
    /\ last.op = "register" =>
          IF AlreadyRegistered(last)
          THEN /\ mapped = last.before
               /\ [handle |-> last.handle, uid |-> last.fn.uid] \in issued
               /\ last.key \in DOMAIN last.before
          ELSE /\ last.key \notin DOMAIN last.before
               /\ DOMAIN mapped = DOMAIN last.before \cup {last.key}
               /\ mapped[last.key] = last.fn
               /\ \A k \in DOMAIN last.before : mapped[k] = last.before[k]
    /\ Cardinality(DOMAIN mapped) = Cardinality({i.uid : i \in issued})

\* reached: a callable is registered a second time while another one is
\* registered too
C4_Witness ==
    /\ last.op = "register"
    /\ AlreadyRegistered(last)
    /\ Cardinality(DOMAIN mapped) >= 2

\* C5: as long as the registry is not cleared, every handle register_fn has
\* returned is a key of the registry and resolves to the callable it was
\* returned for.
C5_HandlesStayValid ==
    \A i \in issued :
        /\ ParseKey(i.handle) \in DOMAIN mapped
        /\ mapped[ParseKey(i.handle)].uid = i.uid

\* reached: two handles are out, the script has dropped a registered callable
\* (only the registry keeps it), the slots are used up, and a dispatch ran
C5_Witness ==
    /\ Cardinality(issued) >= 2
    /\ \E i \in issued : mapped[ParseKey(i.handle)] \notin held
    /\ nextUid > MaxSlots + 1
    /\ last.op = "dispatch"

(***************************************************************************)
(* Claims about the state-preservation wrappers.                           *)
(***************************************************************************)
ClosedOf(kind) == {i \in 1..Len(closed) : closed[i].kind = kind}

\* C6 (checked under SpecRegisters): after a preserve_registers(*regs) block
\* every register named in regs and the special registers 0 and " read as
\* they did immediately before the block, whether the block returned or
\* raised.
C6_RegistersRestored ==
    \A i \in ClosedOf("registers") :
        \A r \in Range(closed[i].regs) \cup {"0", "\""} :
            HostEvalReg(closed[i].after, r) = HostEvalReg(closed[i].before, r)

\* C7 (checked under SpecMode): the mode immediately after a preserve_mode
\* block is the mode immediately before it, for every entry mode and every
\* mode the block leaves the editor in.
C7_ModeRestored ==
    \A i \in ClosedOf("mode") : closed[i].after.mode = closed[i].before.mode

C9_FailurePropagatesUnchanged ==
    (pc = "done" /\ closed # <<>> /\ closed[1].excIn = BodyError)
        => /\ Len(closed) = Len(plan)
           /\ \A i \in 1..Len(closed) :
                 /\ closed[i].depth = Len(plan) + 1 - i
                 /\ closed[i].kind = plan[closed[i].depth].kind
                 /\ closed[i].error = "none"
           /\ exc = BodyError

IsSpecialReg(r) == r \in {"0", "\""}

\* C10 as stated (checked under SpecRegisters): in the exit phase no write to
\* a named register follows the first write to a special register.
C10_NoNamedWriteAfterSpecial ==
    \A i \in ClosedOf("registers") :
        \A j, k \in 1..Len(closed[i].writes) :
            (j < k /\ IsSpecialReg(closed[i].writes[j]))
                => IsSpecialReg(closed[i].writes[k])

\* C10 amended: the exit phase writes the registers of regs in the order
\* given and then 0 and ", stopping only at a write the host rejects; so the
\* last two writes of a completed exit are those to 0 and then ", and when
\* regs names no special register no write to a named register follows a
\* write to a special one.
C10_SpecialsWrittenLast ==
    \A i \in ClosedOf("registers") :
        LET order == closed[i].regs \o <<"0", "\"">>
            writes == closed[i].writes
        IN /\ Len(writes) <= Len(order)
           /\ writes = SubSeq(order, 1, Len(writes))
           /\ closed[i].error = "none" => writes = order
           /\ (\A n \in 1..Len(closed[i].regs) : ~IsSpecialReg(closed[i].regs[n]))
                => \A j, k \in 1..Len(writes) :
                       (j < k /\ IsSpecialReg(writes[j])) => IsSpecialReg(writes[k])

\* reached: a completed exit of preserve_registers("0", "a"), whose regs name
\* a special register before a named one, and one of preserve_registers("a")
C10_Witness ==
    \E i \in ClosedOf("registers") :
        /\ closed[i].error = "none"
        /\ closed[i].regs \in {<<"0", "a">>, <<"a">>}
        /\ Len(closed[i].writes) = Len(closed[i].regs) + 2
        /\ closed[i].exitIn.regs # closed[i].before.regs

\* C11 (checked under SpecMode): on exit from a preserve_mode block, if the
\* entry mode was a visual mode (by character, by line or blockwise) and the
\* editor is now in normal mode, gv is fed once; if the entry mode was normal
\* and the editor is now in a visual mode, escape is fed once; in every other
\* combination no keys are fed and the editor is left as it is.
C11_ModeExitFeedsKeys ==
    \A i \in ClosedOf("mode") :
        LET old == closed[i].before.mode
            cur == closed[i].exitIn.mode
        IN IF old \in HostVisual /\ cur = "n"
           THEN closed[i].fed = <<(<<"g", "v">>)>>
           ELSE IF old = "n" /\ cur \in HostVisual
           THEN closed[i].fed = <<(<<"\\", "<", "e", "s", "c", ">">>)>>
           ELSE closed[i].fed = <<>> /\ closed[i].after = closed[i].exitIn

\* C12 (checked under SpecCommand): when command(cmd, capture=True) is over,
\* whether cmd succeeded or raised, message redirection is off again and the
\* registers a, 0 and " read as before the call, and on success the value
\* returned is the text cmd wrote, or None when it wrote nothing; when
\* command(cmd, capture=False) is over, cmd was issued once, no redirection
\* was started, the value returned is None, and no register was written
\* other than by cmd itself.
C12_CommandClosedScope ==
    /\ (pc = "done" /\ cap.kind = "capture")
          => /\ vim.redir = "none"
             /\ \A r \in {"a", "0", "\""} :
                    HostEvalReg(vim, r) = HostEvalReg(cap.before, r)
             /\ cap.ncmd = 1
             /\ exc = "none" =>
                    cap.out = IF cap.text = <<>> THEN NoneVal ELSE Some(cap.text)
    /\ (pc = "done" /\ cap.kind = "plain")
          => /\ vim.redir = cap.before.redir
             /\ cap.ncmd = 1
             /\ cap.out = NoneVal
             /\ ~cap.yank => vim = cap.before

====
